---------------------------- MODULE Spec2Model ----------------------------
(***************************************************************************)
(* Identity allocation, the identifier <-> engine-handle cache, the query  *)
(* construction and the bulk-response reconciliation of the company search *)
(* API (src/app/company_unique_ids.py, company.py, companies_resource.py,  *)
(* bulk_response.py, company_api_bulk_response.py, search_query.py,        *)
(* company_request_handler.py).                                            *)
(***************************************************************************)
EXTENDS Integers, Sequences, FiniteSets, TLC

(* company_unique_ids.py:4 sets MIN_ID, MAX_ID = 10000, 999999999.  The    *)
(* range is scaled down here: only its finiteness and its width matter to  *)
(* the allocator.                                                          *)
MIN_ID == 1
MAX_ID == 3
(* Number of documents the engine ever stores (one fresh handle each).     *)
MaxDocs == 2
(* Number of request workers.                                              *)
NumWorkers == 2
(* Longest bulk request list.                                              *)
MaxReq == 2

IdRange == MIN_ID..MAX_ID
NoId == MIN_ID - 1
(* Engine handles are strings in the code and identifiers are integers, so *)
(* the two kinds of key of the cache dict never collide: handles are drawn *)
(* from a range disjoint from the identifiers.                             *)
Handles == (MAX_ID + 1)..(MAX_ID + MaxDocs)
NoHandle == NoId
Workers == 1..NumWorkers

VARIABLES
  ids,          \* CompanyUniqueIds.ids: the live identifier set
  cache,        \* CompanyUniqueIds._company_id_to_elasticsearch_id_cache
  docs,         \* the engine's index: handle -> 'id' field of the document
  nextHandle,   \* next handle the engine assigns
  pc,           \* per worker: position inside Company() / generate
  id_,          \* per worker: the local id_ of generate, then the id field
                \* of the Company under construction
  outstanding,  \* per identifier: generate returns not followed by a remove
  stale,        \* identifiers whose record was deleted through the API
                \* after an earlier read had cached their handle
  obs,          \* what the operation that has just returned did
  read          \* per worker: the locals of a read of elasticsearch_id in
                \* progress (the handle found, whether the engine was asked)

vars == <<ids, cache, docs, nextHandle, pc, id_, outstanding, stale, obs, read>>

Range(f) == {f[x] : x \in DOMAIN f}
EmptyMap == [x \in {} |-> NoId]
Put(f, k, v) == [x \in DOMAIN f \cup {k} |-> IF x = k THEN v ELSE f[x]]
Drop(f, ks) == [x \in DOMAIN f \ ks |-> f[x]]

-----------------------------------------------------------------------------
(* The engine.                                                             *)

(* The index the process finds at start: empty, or one document for every  *)
(* identifier but the last of the range.                                   *)
SeedDocs == [h \in (MAX_ID + 1)..(MAX_ID + (MAX_ID - MIN_ID)) \cap Handles
               |-> MIN_ID + (h - (MAX_ID + 1))]
InitialIndexes == {EmptyMap, SeedDocs}

(* search_query.py perform_search of build_query([exact_match('id', i)]):  *)
(* the handles of the documents whose 'id' field is i.                     *)
Hits(d, i) == {h \in DOMAIN d : d[h] = i}

-----------------------------------------------------------------------------
(* CompanyUniqueIds.                                                       *)

(* populate_ids_cache_map with its second write left out.                  *)
populate_ids_cache_map_forward_only(c, key, value) == Put(c, key, value)

(* populate_ids_cache_map lines 65-68: the two writes.                     *)
populate_ids_cache_map(c, key, value) == Put(Put(c, key, value), value, key)

(* elasticsearch_id storing an entry for an identifier the engine does not *)
(* hold.                                                                   *)
elasticsearch_id_negative(c, d, i) ==
  IF i \in DOMAIN c
  THEN {[raised |-> FALSE, handle |-> c[i], queried |-> FALSE, cache |-> c]}
  ELSE IF Hits(d, i) = {}
       THEN {[raised |-> TRUE, handle |-> NoHandle, queried |-> TRUE,
              cache |-> Put(c, i, NoHandle)]}
       ELSE {[raised |-> FALSE, handle |-> h, queried |-> TRUE,
              cache |-> populate_ids_cache_map(c, i, h)] : h \in Hits(d, i)}

(* Company.elasticsearch_id read for identifier i with cache c and index   *)
(* d: the outcomes the property can have.  A cache hit returns without a   *)
(* query; a miss queries, raises NotFoundError on zero hits and otherwise  *)
(* stores both directions for the first hit (size=1: the engine picks      *)
(* which of several equal-score hits comes first).                         *)
elasticsearch_id(c, d, i) ==
  IF i \in DOMAIN c
  THEN {[raised |-> FALSE, handle |-> c[i], queried |-> FALSE, cache |-> c]}
  ELSE IF Hits(d, i) = {}
       THEN {[raised |-> TRUE, handle |-> NoHandle, queried |-> TRUE, cache |-> c]}
       ELSE {[raised |-> FALSE, handle |-> h, queried |-> TRUE,
              cache |-> populate_ids_cache_map(c, i, h)] : h \in Hits(d, i)}

NoObs == [op |-> "none"]
NoRead == [handle |-> NoHandle, queried |-> FALSE]

Init ==
  /\ docs \in InitialIndexes
  /\ ids = Range(docs)
  /\ cache = EmptyMap
  /\ nextHandle = MAX_ID + 1 + Cardinality(DOMAIN docs)
  /\ pc = [w \in Workers |-> "idle"]
  /\ id_ = [w \in Workers |-> NoId]
  /\ outstanding = [i \in IdRange |-> 0]
  /\ stale = {}
  /\ obs = NoObs
  /\ read = [w \in Workers |-> NoRead]

(* generate line 47: id_ = randint(MIN_ID, MAX_ID).                        *)
GenDraw(w) ==
  /\ pc[w] = "idle"
  /\ \E i \in IdRange : id_' = [id_ EXCEPT ![w] = i]
  /\ pc' = [pc EXCEPT ![w] = "gen_if"]
  /\ obs' = NoObs
  /\ UNCHANGED <<ids, cache, docs, nextHandle, outstanding, stale, read>>

GenIfUntested(w) ==
  /\ pc[w] = "gen_if"
  /\ pc' = [pc EXCEPT ![w] = "gen_add"]
  /\ obs' = NoObs
  /\ UNCHANGED <<ids, cache, docs, nextHandle, id_, outstanding, stale, read>>

(* generate line 48: if id_ in cls.ids.                                    *)
GenIf(w) ==
  /\ pc[w] = "gen_if"
  /\ pc' = [pc EXCEPT ![w] = IF id_[w] \in ids THEN "gen_while" ELSE "gen_add"]
  /\ obs' = NoObs
  /\ UNCHANGED <<ids, cache, docs, nextHandle, id_, outstanding, stale, read>>

(* generate lines 49-50: while id_ in cls.ids: id_ = randint(...).         *)
GenWhile(w) ==
  /\ pc[w] = "gen_while"
  /\ IF id_[w] \in ids
     THEN /\ \E i \in IdRange : id_' = [id_ EXCEPT ![w] = i]
          /\ pc' = pc
     ELSE /\ id_' = id_
          /\ pc' = [pc EXCEPT ![w] = "gen_add"]
  /\ obs' = NoObs
  /\ UNCHANGED <<ids, cache, docs, nextHandle, outstanding, stale, read>>

(* generate line 51: cls.ids.add(id_).                                     *)
AddToIds(s, i) == s \cup {i}

(* generate lines 51-52: cls.ids.add(id_); return id_.                     *)
GenAdd(w, next) ==
  /\ pc[w] = "gen_add"
  /\ ids' = AddToIds(ids, id_[w])
  /\ outstanding' = [outstanding EXCEPT ![id_[w]] = @ + 1]
  /\ obs' = [op |-> "generate", w |-> w, ret |-> id_[w],
             wasLive |-> id_[w] \in ids, others |-> outstanding[id_[w]]]
  /\ pc' = [pc EXCEPT ![w] = next]
  /\ id_' = [id_ EXCEPT ![w] = IF next = "idle" THEN NoId ELSE @]
  /\ UNCHANGED <<cache, docs, nextHandle, stale, read>>

(* remove lines 55-62: cls.ids.discard(id_).                               *)
remove(s, i) == s \ {i}


(* A direct call of CompanyUniqueIds.remove.                               *)
RemoveCall(w, i) ==
  /\ pc[w] = "idle"
  /\ ids' = remove(ids, i)
  /\ outstanding' = [outstanding EXCEPT ![i] = 0]
  /\ obs' = [op |-> "remove", id |-> i]
  /\ UNCHANGED <<cache, docs, nextHandle, pc, id_, stale, read>>

-----------------------------------------------------------------------------
(* Messages: the text, and whether the text holds the pattern "id":<id>    *)
(* that bulk_response.py line 43 searches for.                             *)
Message(text, i, embedded) == [text |-> text, id |-> i, embedded |-> embedded]
Tag(text) == Message(text, NoId, FALSE)
(* company.py lines 62-68: the NotFoundError message names the identifier  *)
(* as "company id <id>", which the pattern does not match.                 *)
NotFoundMessage(i) == Message("document was not found in Elasticsearch", i, FALSE)

-----------------------------------------------------------------------------
(* CompaniesResource and the routes' single-item operations.               *)

(* add_company lines 60-69: es_client.index stores the document under a    *)
(* handle the engine assigns; the live set is not touched.                 *)
add_company(d, h, i) == Put(d, h, i)

(* Company() with no id (the default factory's generate has returned),     *)
(* then add_company.                                                       *)
AddCompany(w) ==
  /\ pc[w] = "built"
  /\ nextHandle \in Handles
  /\ docs' = add_company(docs, nextHandle, id_[w])
  /\ nextHandle' = nextHandle + 1
  /\ pc' = [pc EXCEPT ![w] = "idle"]
  /\ id_' = [id_ EXCEPT ![w] = NoId]
  /\ obs' = [op |-> "add_company", id |-> id_[w], handle |-> nextHandle,
             supplied |-> FALSE]
  /\ UNCHANGED <<ids, cache, outstanding, stale, read>>

(* The same, the engine being unreachable: es_client.index raises and the  *)
(* allocated identifier stays in the live set.                             *)
AddCompanyUnavailable(w) ==
  /\ pc[w] = "built"
  /\ pc' = [pc EXCEPT ![w] = "idle"]
  /\ id_' = [id_ EXCEPT ![w] = NoId]
  /\ obs' = [op |-> "add_company_failed", id |-> id_[w]]
  /\ UNCHANGED <<ids, cache, docs, nextHandle, outstanding, stale, read>>

(* Company(id=i) with the identifier the client supplied (generate is not  *)
(* called: company.py line 34 only runs the factory when id is absent),    *)
(* then add_company.                                                       *)
AddSupplied(w, i) ==
  /\ pc[w] = "idle"
  /\ nextHandle \in Handles
  /\ docs' = add_company(docs, nextHandle, i)
  /\ nextHandle' = nextHandle + 1
  /\ obs' = [op |-> "add_company", id |-> i, handle |-> nextHandle,
             supplied |-> TRUE]
  /\ UNCHANGED <<ids, cache, pc, id_, outstanding, stale, read>>

(* How the read of elasticsearch_id that has just returned ended, when it  *)
(* was a read for identifier i, and the handle it returned.                *)
PrevRead(i) ==
  IF obs.op = "resolve" /\ obs.id = i
  THEN IF obs.raised THEN "raised" ELSE "returned"
  ELSE "none"
PrevHandle(i) ==
  IF obs.op = "resolve" /\ obs.id = i THEN obs.handle ELSE NoHandle

(* One read of Company(i).elasticsearch_id.                                *)
Resolve(w, i) ==
  /\ pc[w] = "idle"
  /\ \E r \in elasticsearch_id(cache, docs, i) :
       /\ cache' = r.cache
       /\ stale' = IF r.queried /\ ~r.raised THEN stale \ {i} ELSE stale
       /\ obs' = [op |-> "resolve", id |-> i, raised |-> r.raised,
                  handle |-> r.handle, queried |-> r.queried,
                  afterDelete |-> i \in stale,
                  prev |-> PrevRead(i), first |-> PrevHandle(i)]
  /\ UNCHANGED <<ids, docs, nextHandle, pc, id_, outstanding, read>>

(* delete_company lines 79-81.  Line 79 resolves the handle and deletes    *)
(* the document (either may raise NotFoundError, which ends the call);     *)
(* line 80 discards the identifier from the live set; line 81 calls        *)
(* CompanyUniqueIds.remove_ids_from_cache_map, an attribute the class      *)
(* (company_unique_ids.py lines 7-73) does not define: AttributeError.     *)
DeleteCompany(w, i) ==
  /\ pc[w] = "idle"
  /\ \E r \in elasticsearch_id(cache, docs, i) :
       /\ cache' = r.cache
       /\ IF r.raised \/ r.handle \notin DOMAIN docs
          THEN /\ obs' = [op |-> "delete_company", id |-> i, handle |-> r.handle,
                          engine |-> "not_found", raised |-> "NotFoundError"]
               /\ UNCHANGED <<ids, docs, outstanding, stale>>
          ELSE /\ docs' = Drop(docs, {r.handle})
               /\ ids' = remove(ids, i)
               /\ outstanding' = [outstanding EXCEPT ![i] = 0]
               /\ stale' = IF i \in DOMAIN cache THEN stale \cup {i} ELSE stale
               /\ obs' = [op |-> "delete_company", id |-> i, handle |-> r.handle,
                          engine |-> "deleted", raised |-> "AttributeError"]
  /\ UNCHANGED <<nextHandle, pc, id_, read>>

(* Company(i).elasticsearch_id read by worker w, one step per access to    *)
(* the shared cache or to the engine, so that the reads of several workers *)
(* interleave.  Line 54: the cache is looked up; a hit is returned.        *)
ReadStart(w, i) ==
  /\ pc[w] = "idle"
  /\ id_' = [id_ EXCEPT ![w] = i]
  /\ IF i \in DOMAIN cache
     THEN /\ read' = [read EXCEPT ![w] = [handle |-> cache[i], queried |-> FALSE]]
          /\ pc' = [pc EXCEPT ![w] = "returned"]
     ELSE /\ read' = read
          /\ pc' = [pc EXCEPT ![w] = "es_query"]
  /\ UNCHANGED <<ids, cache, docs, nextHandle, outstanding, stale, obs>>

(* Lines 56-69: the exact-match query; NotFoundError on zero hits, else    *)
(* elasticsearch_id = response[0]['_id'].                                  *)
ReadQuery(w) ==
  /\ pc[w] = "es_query"
  /\ IF Hits(docs, id_[w]) = {}
     THEN /\ read' = [read EXCEPT ![w] = [handle |-> NoHandle, queried |-> TRUE]]
          /\ pc' = [pc EXCEPT ![w] = "raised"]
     ELSE /\ \E h \in Hits(docs, id_[w]) :
               read' = [read EXCEPT ![w] = [handle |-> h, queried |-> TRUE]]
          /\ pc' = [pc EXCEPT ![w] = "populate_key"]
  /\ UNCHANGED <<ids, cache, docs, nextHandle, id_, outstanding, stale, obs>>

(* populate_ids_cache_map line 67: cache[key] = value.                     *)
PopulateKey(w) ==
  /\ pc[w] = "populate_key"
  /\ cache' = Put(cache, id_[w], read[w].handle)
  /\ pc' = [pc EXCEPT ![w] = "populate_value"]
  /\ UNCHANGED <<ids, docs, nextHandle, id_, outstanding, stale, obs, read>>

(* populate_ids_cache_map without its second write.                        *)
PopulateValueSkipped(w) ==
  /\ pc[w] = "populate_value"
  /\ pc' = [pc EXCEPT ![w] = "returned"]
  /\ UNCHANGED <<ids, cache, docs, nextHandle, id_, outstanding, stale, obs, read>>

(* populate_ids_cache_map line 68: cache[value] = key; then company.py     *)
(* line 72 returns the handle.                                             *)
PopulateValue(w) ==
  /\ pc[w] = "populate_value"
  /\ cache' = Put(cache, read[w].handle, id_[w])
  /\ pc' = [pc EXCEPT ![w] = "returned"]
  /\ UNCHANGED <<ids, docs, nextHandle, id_, outstanding, stale, obs, read>>

(* The caller has the handle or the NotFoundError; the worker is free.     *)
ReadDone(w) ==
  /\ pc[w] \in {"returned", "raised"}
  /\ pc' = [pc EXCEPT ![w] = "idle"]
  /\ id_' = [id_ EXCEPT ![w] = NoId]
  /\ read' = [read EXCEPT ![w] = NoRead]
  /\ UNCHANGED <<ids, cache, docs, nextHandle, outstanding, stale, obs>>

(* PATCH /companies/<id> (companies_routes.py lines 168-175):              *)
(* Company(i).update(fields_to_values), company.py lines 82-85.  The       *)
(* handle is read through elasticsearch_id (NotFoundError ends the call)   *)
(* and es_client.update writes the fields to the document under it, which  *)
(* raises NotFoundError when the engine holds no such document.  The       *)
(* payload may carry an 'id' field (api_models.py company_model): new_id   *)
(* is its value, NoId when it carries none.  The cache is written by the   *)
(* read only.                                                              *)
UpdateCompany(w, i, new_id) ==
  /\ pc[w] = "idle"
  /\ \E r \in elasticsearch_id(cache, docs, i) :
       /\ cache' = r.cache
       /\ IF r.raised \/ r.handle \notin DOMAIN docs
          THEN /\ docs' = docs
               /\ obs' = [op |-> "update", id |-> i, new_id |-> new_id,
                          handle |-> r.handle, raised |-> "NotFoundError"]
          ELSE /\ docs' = IF new_id = NoId THEN docs ELSE Put(docs, r.handle, new_id)
               /\ obs' = [op |-> "update", id |-> i, new_id |-> new_id,
                          handle |-> r.handle, raised |-> "none"]
  /\ UNCHANGED <<ids, nextHandle, pc, id_, outstanding, stale, read>>

-----------------------------------------------------------------------------
(* Bulk delete.                                                            *)

Requests == UNION {[1..n -> IdRange] : n \in 1..MaxReq}

(* bulk_delete lines 204-217, the generator actions(companies) as          *)
(* helpers.bulk drains it: each company's elasticsearch_id is read in      *)
(* request order; a NotFoundError is recorded under the company's own      *)
(* identifier and no action is yielded for it.  The outcomes: the cache    *)
(* after the reads, the actions yielded, the internal errors.  (The engine *)
(* accepts the exact-match query for every identifier of the range, so the *)
(* BadRequestError clause of lines 215-217 is not entered.)                *)
RECURSIVE actions(_, _, _)
actions(c, d, req) ==
  IF req = <<>>
  THEN {[cache |-> c, yielded |-> <<>>, internal_errors |-> {}]}
  ELSE UNION {
         { IF r.raised
           THEN [cache |-> rest.cache, yielded |-> rest.yielded,
                 internal_errors |-> rest.internal_errors
                                      \cup {<<Head(req), NotFoundMessage(Head(req))>>}]
           ELSE [cache |-> rest.cache,
                 yielded |-> <<[id |-> Head(req), handle |-> r.handle]>> \o rest.yielded,
                 internal_errors |-> rest.internal_errors]
           : rest \in actions(r.cache, d, Tail(req)) }
         : r \in elasticsearch_id(c, d, Head(req)) }

(* The engine executing the delete actions in order (raise_on_error=False) *)
(* with fails the positions the engine refuses for a reason of its own: an *)
(* action whose handle has no document fails as well.  The result is the   *)
(* index afterwards and the positions that failed.                         *)
RECURSIVE EngineBulkDelete(_, _, _, _)
EngineBulkDelete(d, acts, k, fails) ==
  IF k > Len(acts)
  THEN [docs |-> d, failed |-> {}]
  ELSE IF k \in fails \/ acts[k].handle \notin DOMAIN d
       THEN LET rest == EngineBulkDelete(d, acts, k + 1, fails)
            IN  [docs |-> rest.docs, failed |-> rest.failed \cup {k}]
       ELSE EngineBulkDelete(Drop(d, {acts[k].handle}), acts, k + 1, fails)

(* An identifier's live-set membership and cache entry.                    *)
Entry(c, s, i) ==
  [id |-> i, live |-> i \in s,
   handle |-> IF i \in DOMAIN c THEN c[i] ELSE NoHandle]

(* What is left of the generator when helpers.bulk has returned: it has    *)
(* been iterated to its end (bulk_delete lines 219-225).                   *)
Drained(acts) == <<>>

(* bulk_delete lines 201-231.  The loop of lines 228-229 iterates the      *)
(* drained generator, so its body never runs: neither the cache nor the    *)
(* live set is touched after the engine call.                              *)
BulkDelete(w, req) ==
  /\ pc[w] = "idle"
  /\ \E a \in actions(cache, docs, req) :
     \E fails \in SUBSET (1..Len(a.yielded)) :
       LET e == EngineBulkDelete(docs, a.yielded, 1, fails)
           done == {a.yielded[k] : k \in (1..Len(a.yielded)) \ e.failed}
           left == Drained(a.yielded)
       IN  /\ left = <<>>
           /\ docs' = e.docs
           /\ cache' = a.cache
           /\ stale' = stale \cup ({x.id : x \in done} \cap DOMAIN cache)
           /\ obs' = [op |-> "bulk_delete", req |-> req, deleted |-> done,
                      unresolved |-> {i \in Range(req) : Hits(docs, i) = {}
                                                         /\ i \notin DOMAIN cache},
                      yielded |-> [k \in 1..Len(a.yielded) |-> a.yielded[k].id],
                      internal |-> {x[1] : x \in a.internal_errors},
                      raised |-> "none",
                      failed |-> {Entry(a.cache, ids, i) :
                                   i \in ({a.yielded[k].id : k \in e.failed}
                                          \cup {x[1] : x \in a.internal_errors})
                                         \ {x.id : x \in done}}]
  /\ UNCHANGED <<ids, nextHandle, pc, id_, outstanding, read>>

-----------------------------------------------------------------------------
(* BulkResponse and CompanyApiBulkResponse.                                *)

(* Reasons the engine gives for refusing one action of a batch.            *)
Reasons == {"version conflict", "primary shard is not active"}

(* One failure descriptor of raw_response[1]:                              *)
(* message[op]['_id'] and message[op]['error']['caused_by']['reason'].     *)
Failure(h, reason) == [es_id |-> h, reason |-> reason]

(* bulk_response.py lines 37-44, the loop over raw_response[1] from the    *)
(* dict error: the cached reverse mapping of the handle gives the company  *)
(* identifier; on KeyError the identifier is searched in the message, and  *)
(* re.search(...) returning None makes .group raise AttributeError.        *)
RECURSIVE errors_loop(_, _, _)
errors_loop(error, failures, c) ==
  IF failures = <<>>
  THEN [raised |-> FALSE, error |-> error]
  ELSE LET message == Head(failures)
           error_msg == message.reason
           es_id == message.es_id
       IN  IF es_id \in DOMAIN c
           THEN errors_loop(Put(error, c[es_id], error_msg), Tail(failures), c)
           ELSE IF error_msg.embedded
                THEN errors_loop(Put(error, error_msg.id, error_msg), Tail(failures), c)
                ELSE [raised |-> TRUE, error |-> error]

overlay_engine_first(error, internal_errors) ==
  [i \in DOMAIN error \cup {x[1] : x \in internal_errors} |->
     IF i \in DOMAIN error
     THEN error[i]
     ELSE (CHOOSE x \in internal_errors : x[1] = i)[2]]

(* bulk_response.py lines 45-47: every internal error overwrites the entry *)
(* of its company identifier.  (The set holds one message per identifier.) *)
overlay(error, internal_errors) ==
  [i \in DOMAIN error \cup {x[1] : x \in internal_errors} |->
     IF \E x \in internal_errors : x[1] = i
     THEN (CHOOSE x \in internal_errors : x[1] = i)[2]
     ELSE error[i]]

(* BulkResponse.errors, lines 33-48.                                       *)
errors(failures, internal_errors, c) ==
  LET looped == errors_loop(EmptyMap, failures, c)
  IN  IF looped.raised
      THEN looped
      ELSE [raised |-> FALSE, error |-> overlay(looped.error, internal_errors)]

(* process_single_bulk_element, lines 70-82.                               *)
process_single_bulk_element(data, bulk_element, response_msg) ==
  Append(data, [request |-> bulk_element, response |-> response_msg])

create_bulk_delete_resp_errors_only(data, request_ids, errors_present, error) ==
  SelectSeq([k \in 1..Len(request_ids) |->
               [request |-> request_ids[k],
                response |-> IF request_ids[k] \in DOMAIN error
                             THEN error[request_ids[k]] ELSE Tag("deleted")]],
            LAMBDA e : e.request \in DOMAIN error)

(* create_bulk_delete_resp, lines 29-37.                                   *)
RECURSIVE create_bulk_delete_resp(_, _, _, _)
create_bulk_delete_resp(data, request_ids, errors_present, error) ==
  IF request_ids = <<>>
  THEN data
  ELSE LET id == Head(request_ids)
       IN  create_bulk_delete_resp(
             IF errors_present /\ id \in DOMAIN error
             THEN process_single_bulk_element(data, id, error[id])
             ELSE process_single_bulk_element(data, id, Tag("deleted")),
             Tail(request_ids), errors_present, error)

RECURSIVE create_bulk_update_resp_reversed(_, _, _, _)
create_bulk_update_resp_reversed(data, request_data, errors_present, error) ==
  IF request_data = <<>>
  THEN data
  ELSE LET element == request_data[Len(request_data)]
       IN  create_bulk_update_resp_reversed(
             IF errors_present /\ element.id \in DOMAIN error
             THEN process_single_bulk_element(data, element, error[element.id])
             ELSE process_single_bulk_element(data, element, Tag("updated")),
             SubSeq(request_data, 1, Len(request_data) - 1), errors_present, error)

RECURSIVE create_bulk_update_resp_no_errors(_, _, _, _)
create_bulk_update_resp_no_errors(data, request_data, errors_present, error) ==
  IF request_data = <<>>
  THEN data
  ELSE create_bulk_update_resp_no_errors(
         process_single_bulk_element(data, Head(request_data), Tag("updated")),
         Tail(request_data), errors_present, error)

(* create_bulk_update_resp, lines 39-47.                                   *)
RECURSIVE create_bulk_update_resp(_, _, _, _)
create_bulk_update_resp(data, request_data, errors_present, error) ==
  IF request_data = <<>>
  THEN data
  ELSE LET element == Head(request_data)
       IN  create_bulk_update_resp(
             IF errors_present /\ element.id \in DOMAIN error
             THEN process_single_bulk_element(data, element, error[element.id])
             ELSE process_single_bulk_element(data, element, Tag("updated")),
             Tail(request_data), errors_present, error)

(* create_bulk_add_resp, lines 49-53: every element is answered 'created'. *)
RECURSIVE create_bulk_add_resp(_, _)
create_bulk_add_resp(data, request_data) ==
  IF request_data = <<>>
  THEN data
  ELSE create_bulk_add_resp(
         process_single_bulk_element(data, Head(request_data), Tag("created")),
         Tail(request_data))

(* CompanyApiBulkResponse(es_bulk_response, request_handler), lines 22-27, *)
(* then create_bulk_resp(), lines 55-68.  The constructor reads            *)
(* es_bulk_response.errors for errors_present, so it raises when that      *)
(* property raises.  request is request_data (request_data['ids'] for a    *)
(* delete).                                                                *)
create_bulk_resp(op_type, request, failures, internal_errors, c) ==
  LET e == errors(failures, internal_errors, c)
      errors_present == DOMAIN e.error # {}
  IN  IF e.raised
      THEN [raised |-> TRUE, data |-> <<>>]
      ELSE [raised |-> FALSE,
            data |-> CASE op_type = "index" -> create_bulk_add_resp(<<>>, request)
                       [] op_type = "delete" ->
                            create_bulk_delete_resp(<<>>, request, errors_present, e.error)
                       [] op_type = "update" ->
                            create_bulk_update_resp(<<>>, request, errors_present, e.error)
                       [] OTHER -> <<>>]

(* What became of one item of a bulk request: submitted and executed,      *)
(* submitted and refused by the engine, or not submitted because its       *)
(* handle could not be resolved.                                           *)
Executed == [kind |-> "ok", reason |-> Tag("")]
Unresolved == [kind |-> "local", reason |-> Tag("")]
Refused == {[kind |-> "failed", reason |-> Message(r, NoId, FALSE)] : r \in Reasons}
RefusedIndex(i) ==
  {[kind |-> "failed", reason |-> Message(r, i, e)] : r \in Reasons, e \in BOOLEAN}

(* The outcomes item i of a bulk request can have with cache c.  For       *)
(* update and delete the handle is read through elasticsearch_id, which    *)
(* leaves every submitted item's identifier in the cache and raises only   *)
(* for an identifier that is not in it.  An index action has no handle of  *)
(* its own in the cache; a refusal's message may quote the document.       *)
ItemOutcomes(op_type, i, c) ==
  IF op_type = "index"
  THEN {Executed} \cup RefusedIndex(i)
  ELSE IF i \in DOMAIN c THEN {Executed} \cup Refused ELSE {Unresolved}

(* The outcomes of the items of request req, in request order.             *)
RECURSIVE Outcomes(_, _, _)
Outcomes(op_type, req, c) ==
  IF req = <<>>
  THEN {<<>>}
  ELSE {<<o>> \o rest : o \in ItemOutcomes(op_type, Head(req), c),
                        rest \in Outcomes(op_type, Tail(req), c)}

(* The BulkResponse of a bulk operation whose items ended as in outcome:   *)
(* the engine's failure descriptors in the order of the actions, and the   *)
(* internal errors.                                                        *)
RECURSIVE RawFailures(_, _, _, _)
RawFailures(op_type, req, outcome, c) ==
  IF req = <<>>
  THEN <<>>
  ELSE LET rest == RawFailures(op_type, Tail(req),
                               [k \in 1..(Len(req) - 1) |-> outcome[k + 1]], c)
       IN  IF outcome[1].kind = "failed"
           THEN <<Failure(IF op_type = "index" THEN NoHandle ELSE c[Head(req)],
                          outcome[1].reason)>> \o rest
           ELSE rest

InternalErrors(req, outcome) ==
  {<<req[k], NotFoundMessage(req[k])>> : k \in {j \in 1..Len(req) : outcome[j].kind = "local"}}

(* request_data of the handler: the list of identifiers for a delete, the  *)
(* list of payload objects otherwise.                                      *)
RequestData(op_type, req) ==
  IF op_type = "delete" THEN req ELSE [k \in 1..Len(req) |-> [id |-> req[k]]]

(* A bulk request of type op_type for the identifiers req has been         *)
(* executed; its response body is built.                                   *)
CreateBulkResp(op_type, req) ==
  /\ obs.op # "create_bulk_resp"
  /\ \E outcome \in Outcomes(op_type, req, cache) :
       LET failures == RawFailures(op_type, req, outcome, cache)
           internal == InternalErrors(req, outcome)
           request == RequestData(op_type, req)
           resp == create_bulk_resp(op_type, request, failures, internal, cache)
       IN  obs' = [op |-> "create_bulk_resp", op_type |-> op_type,
                   request_data |-> request, failures |-> failures,
                   internal_errors |-> internal,
                   raised |-> resp.raised, data |-> resp.data]
  /\ UNCHANGED <<ids, cache, docs, nextHandle, pc, id_, outstanding, stale, read>>

(* The response body is returned to the client.                            *)
ReturnBulkResp ==
  /\ obs.op = "create_bulk_resp"
  /\ obs' = NoObs
  /\ UNCHANGED <<ids, cache, docs, nextHandle, pc, id_, outstanding, stale, read>>

-----------------------------------------------------------------------------
(* Bulk update.                                                            *)

(* bulk_update lines 161-177, the generator actions(companies) as          *)
(* helpers.bulk iterates it.  The dict display of lines 164-171 evaluates  *)
(* company.elasticsearch_id first: a NotFoundError is recorded under the   *)
(* company's own identifier (lines 172-174) and the loop goes on.  When    *)
(* the handle is resolved, line 169 calls                                  *)
(* company.as_es_document_for_partial_update, an attribute Company         *)
(* (company.py lines 14-101) does not define: the AttributeError is caught *)
(* by neither except clause and ends the generator before anything is      *)
(* yielded.                                                                *)
RECURSIVE actions_update(_, _, _)
actions_update(c, d, req) ==
  IF req = <<>>
  THEN {[cache |-> c, yielded |-> <<>>, internal_errors |-> {}, raised |-> "none"]}
  ELSE UNION {
         IF r.raised
         THEN { [rest EXCEPT !.internal_errors =
                   @ \cup {<<Head(req), NotFoundMessage(Head(req))>>}]
                : rest \in actions_update(r.cache, d, Tail(req)) }
         ELSE { [cache |-> r.cache, yielded |-> <<>>, internal_errors |-> {},
                 raised |-> "AttributeError"] }
         : r \in elasticsearch_id(c, d, Head(req)) }

(* bulk_update lines 158-187 for the payload objects with identifiers req, *)
(* and the response body built from the BulkResponse it returns.  The      *)
(* exception of the generator propagates through helpers.bulk (line 181).  *)
BulkUpdate(w, req) ==
  /\ pc[w] = "idle"
  /\ \E a \in actions_update(cache, docs, req) :
       LET request == RequestData("update", req)
           resp == create_bulk_resp("update", request, <<>>, a.internal_errors, a.cache)
       IN  /\ cache' = a.cache
           /\ obs' = [op |-> "bulk_update", req |-> req,
                      unresolved |-> {i \in Range(req) : Hits(docs, i) = {}
                                                         /\ i \notin DOMAIN cache},
                      yielded |-> a.yielded,
                      internal |-> {x[1] : x \in a.internal_errors},
                      raised |-> a.raised,
                      data |-> IF a.raised = "none" THEN resp.data ELSE <<>>]
  /\ UNCHANGED <<ids, docs, nextHandle, pc, id_, outstanding, stale, read>>

(* BulkResponse.errors read for a raw report and a set of internal errors  *)
(* of any content: the descriptors name a cached handle, or a handle that  *)
(* is not cached with a message that quotes a document or not; the         *)
(* internal errors are those of a set of identifiers.                      *)
FailureInputs(c) ==
  {Failure(h, Message(r, NoId, FALSE)) : h \in DOMAIN c \cap Handles, r \in Reasons}
    \cup {Failure(NoHandle, Message("version conflict", i, TRUE)) : i \in IdRange}
    \cup {Failure(NoHandle, Message("version conflict", NoId, FALSE))}

FailureLists(c) == UNION {[1..n -> FailureInputs(c)] : n \in 0..MaxReq}

Errors(failures, local) ==
  /\ obs = NoObs
  /\ LET internal_errors == {<<i, NotFoundMessage(i)>> : i \in local}
         e == errors(failures, internal_errors, cache)
     IN  obs' = [op |-> "errors", failures |-> failures,
                 internal_errors |-> internal_errors,
                 raised |-> e.raised, error |-> e.error]
  /\ UNCHANGED <<ids, cache, docs, nextHandle, pc, id_, outstanding, stale, read>>

-----------------------------------------------------------------------------
(* SearchQuery.                                                            *)

(* fuzzy_match, lines 23-42.                                               *)
fuzzy_match(field, query) ==
  [clause |-> "match", field |-> field, query |-> query, fuzziness |-> "auto"]

(* exact_match, lines 45-61.                                               *)
exact_match(field, query) ==
  [clause |-> "term", field |-> field, query |-> query]

(* filter, lines 64-80.                                                    *)
filter(field, query) ==
  [clause |-> "term", field |-> field \o ".keyword", query |-> query]

(* build_query, lines 83-105.                                              *)
build_query(queries, filters) == [must |-> queries, filter |-> filters]

(* The orderings of the set S of hits.                                     *)
Orderings(S) ==
  {f \in [1..Cardinality(S) -> S] : \A j, k \in 1..Cardinality(S) : f[j] = f[k] => j = k}

Min(a, b) == IF a < b THEN a ELSE b

(* perform_search, lines 107-124, of the query build_query([exact_match(   *)
(* 'id', i)]): es_client.search answers with at most size hits, in an      *)
(* order of the engine's choosing.                                         *)
perform_search(d, i, size) ==
  {SubSeq(f, 1, Min(size, Len(f))) : f \in Orderings(Hits(d, i))}

(* perform_search_by_id returning nothing where it finds nothing.          *)
perform_search_by_id_unchecked(response) ==
  IF Len(response) = 0
  THEN [raised |-> "none", result |-> NoHandle]
  ELSE [raised |-> "none", result |-> response[1]]

(* perform_search_by_id, lines 140-154, on the response of perform_search. *)
perform_search_by_id(response) ==
  IF Len(response) = 0
  THEN [raised |-> "NotFoundError", result |-> NoHandle]
  ELSE [raised |-> "none", result |-> response[1]]

(* build_multisearch_body sending no request_cache headers.                *)
RECURSIVE build_multisearch_body_no_heads(_, _, _)
build_multisearch_body_no_heads(msearch_query, queries, max_num_results) ==
  IF queries = <<>>
  THEN msearch_query
  ELSE build_multisearch_body_no_heads(
         msearch_query \o <<[query |-> Head(queries), size |-> max_num_results]>>,
         Tail(queries), max_num_results)

(* build_multisearch_body, lines 170-175.                                  *)
RECURSIVE build_multisearch_body(_, _, _)
build_multisearch_body(msearch_query, queries, max_num_results) ==
  IF queries = <<>>
  THEN msearch_query
  ELSE LET req_head == [request_cache |-> TRUE]
           req_body == [query |-> Head(queries), size |-> max_num_results]
       IN  build_multisearch_body(msearch_query \o <<req_head, req_body>>,
                                  Tail(queries), max_num_results)

(* perform_multisearch, lines 196-201: the hits of one response, cut at    *)
(* max_num_results.                                                        *)
RECURSIVE results_per_request(_, _, _)
results_per_request(results, hits, max_num_results) ==
  IF hits = <<>>
  THEN results
  ELSE results_per_request(
         IF Len(results) < max_num_results THEN Append(results, Head(hits)) ELSE results,
         Tail(hits), max_num_results)

(* perform_multisearch, lines 195-202: one list per response, in the order *)
(* of response['responses'].                                               *)
perform_multisearch(responses, max_num_results) ==
  [k \in 1..Len(responses) |-> results_per_request(<<>>, responses[k], max_num_results)]

(* The hit lists the engine can answer one search with: the documents it   *)
(* holds, any number of them in any order (the claim of perform_multi-     *)
(* search is made whatever the engine answers, so the size the body asks   *)
(* for does not bound them here).                                          *)
HitLists(d) == UNION {Orderings(S) : S \in SUBSET DOMAIN d}

(* es_client.msearch, line 191: the engine reads the body as pairs of a    *)
(* header and a search, and answers every pair with one response, in the   *)
(* order of the pairs.                                                     *)
RECURSIVE msearch(_, _)
msearch(n, d) ==
  IF n = 0
  THEN {<<>>}
  ELSE {<<hits>> \o rest : hits \in HitLists(d), rest \in msearch(n - 1, d)}

-----------------------------------------------------------------------------
(* CompanyRequestHandler.                                                  *)

(* company_request_handler.py line 205: the sizes a search may ask for;    *)
(* line 203 and search_query.py line 12: the size when none is given.      *)
MinSize == 1
MaxSize == 5
DefaultSize == 1

(* Values of the request: None, a string, a dict as the list of its items  *)
(* in iteration order, a list.                                             *)
None == [kind |-> "None", text |-> "", items |-> <<>>]
Str(text) == [kind |-> "str", text |-> text, items |-> <<>>]
Dict(items) == [kind |-> "dict", text |-> "", items |-> items]
List(items) == [kind |-> "list", text |-> "", items |-> items]

(* Python's truth value of v.                                              *)
Truthy(v) ==
  CASE v.kind = "None" -> FALSE
    [] v.kind = "str" -> v.text # ""
    [] OTHER -> v.items # <<>>

(* str.lower on the texts of the model.                                    *)
Lower(text) == IF text = "Acme" THEN "acme" ELSE text

FuzzyFields == {"name", "locality"}
SearchFields == FuzzyFields \cup {"country", "industry"}
FieldValues == {None, Str(""), Str("Acme")}

(* build_query_from_request, lines 144-153: the loop over the items.       *)
RECURSIVE query_loop(_, _, _)
query_loop(query_components, filters, items) ==
  IF items = <<>>
  THEN [query_components |-> query_components, filters |-> filters]
  ELSE LET field == Head(items)[1]
           value == Head(items)[2]
       IN  IF Truthy(value)
           THEN IF field = "name" \/ field = "locality"
                THEN query_loop(Append(query_components,
                                       fuzzy_match(field, Lower(value.text))),
                                filters, Tail(items))
                ELSE query_loop(query_components,
                                Append(filters, filter(field, Lower(value.text))),
                                Tail(items))
           ELSE query_loop(query_components, filters, Tail(items))

(* build_query_from_request, lines 121-155, of a handler with request_data *)
(* self_request_data.  Line 136 tests the truth value of the payload       *)
(* object, so an empty dict is replaced by self.request_data like None;    *)
(* line 144 calls .items() on the object chosen, which a list does not     *)
(* have.                                                                   *)
build_query_from_request(self_request_data, payload_company_obj) ==
  LET reqeust_data == IF Truthy(payload_company_obj)
                      THEN payload_company_obj ELSE self_request_data
  IN  IF reqeust_data.kind # "dict"
      THEN [raised |-> "AttributeError", query |-> build_query(<<>>, <<>>)]
      ELSE LET looped == query_loop(<<>>, <<>>, reqeust_data.items)
           IN  [raised |-> "none",
                query |-> build_query(looped.query_components, looped.filters)]

(* validate_search_size_header letting every size through.                 *)
validate_search_size_header_unbounded(header) ==
  [raised |-> "none", index |-> "companies",
   max_num_results |-> IF header.present THEN header.value ELSE DefaultSize]

(* validate_search_size_header, lines 200-210.  The header is absent       *)
(* (parse_args gives None) or an integer.                                  *)
validate_search_size_header(header) ==
  LET max_results == IF header.present THEN header.value ELSE DefaultSize
  IN  IF max_results < MinSize \/ max_results > MaxSize
      THEN [raised |-> "BadRequest", index |-> "", max_num_results |-> 0]
      ELSE [raised |-> "none", index |-> "companies", max_num_results |-> max_results]

(* validate_bulk_non_empty_body, lines 73-80, run by the constructor: the  *)
(* handler exists when it does not raise.                                  *)
validate_bulk_non_empty_body(req_data) ==
  IF req_data.kind = "list"
  THEN IF Len(req_data.items) = 0 \/ req_data.items[1].items = <<>>
       THEN "BadRequest" ELSE "none"
  ELSE IF \E k \in 1..Len(req_data.items) :
            req_data.items[k][1] = "ids" /\ ~Truthy(req_data.items[k][2])
       THEN "BadRequest" ELSE "none"

(* The dicts over the fields F, as the lists of their items.               *)
RECURSIVE ItemSeqs(_)
ItemSeqs(F) ==
  {<<>>} \cup UNION {{<<<<f, v>>>> \o rest : v \in FieldValues,
                                              rest \in ItemSeqs(F \ {f})} : f \in F}

(* Search objects of a multi-search payload.                               *)
SearchObjects ==
  {Dict(<<<<"name", Str("Acme")>>>>), Dict(<<<<"country", Str("Acme")>>>>)}

Payloads == UNION {[1..n -> SearchObjects] : n \in 1..MaxReq}

(* get_miltisearch_body_from_payload, lines 170-177: the queries of the    *)
(* search objects.                                                         *)
msearch_queries(self_request_data) ==
  [k \in 1..Len(self_request_data.items) |->
     build_query_from_request(self_request_data, self_request_data.items[k]).query]

Headers ==
  {[present |-> FALSE, value |-> 0]}
    \cup {[present |-> TRUE, value |-> v] : v \in (MinSize - 2)..(MaxSize + 2)}

(* A request's X-Max-Results-Per-Query header is validated.                *)
ValidateSearchSizeHeader(header) ==
  /\ obs = NoObs
  /\ obs' = [op |-> "validate_search_size_header", header |-> header,
             search |-> validate_search_size_header(header)]
  /\ UNCHANGED <<ids, cache, docs, nextHandle, pc, id_, outstanding, stale, read>>

(* A multi-search with the SearchQuery validate_search_size_header has     *)
(* returned: get_miltisearch_body_from_payload, then perform_multisearch.  *)
MultiSearch(payload) ==
  /\ obs.op = "validate_search_size_header"
  /\ obs.search.raised = "none"
  /\ LET self_request_data == List(payload)
         max_num_results == obs.search.max_num_results
         queries == msearch_queries(self_request_data)
         body == build_multisearch_body(<<>>, queries, max_num_results)
     IN  /\ validate_bulk_non_empty_body(self_request_data) = "none"
         /\ \E responses \in msearch(Len(body) \div 2, docs) :
              obs' = [op |-> "multisearch", queries |-> queries,
                      max_num_results |-> max_num_results, body |-> body,
                      responses |-> responses,
                      results |-> perform_multisearch(responses, max_num_results)]
  /\ UNCHANGED <<ids, cache, docs, nextHandle, pc, id_, outstanding, stale, read>>

(* build_query_from_request(search) of a handler made from the query       *)
(* parameters of a search request.                                         *)
BuildQueryFromParams(items) ==
  /\ obs = NoObs
  /\ validate_bulk_non_empty_body(Dict(items)) = "none"
  /\ LET built == build_query_from_request(Dict(items), None)
     IN  obs' = [op |-> "build_query_from_request", request |-> items,
                 raised |-> built.raised, query |-> built.query]
  /\ UNCHANGED <<ids, cache, docs, nextHandle, pc, id_, outstanding, stale, read>>

(* build_query_from_request(search, payload_company_obj) as line 171 calls *)
(* it for the last search object of a multi-search payload.                *)
BuildQueryFromPayload(first, items) ==
  /\ obs = NoObs
  /\ validate_bulk_non_empty_body(List(<<first, Dict(items)>>)) = "none"
  /\ LET built == build_query_from_request(List(<<first, Dict(items)>>), Dict(items))
     IN  obs' = [op |-> "build_query_from_request", request |-> items,
                 raised |-> built.raised, query |-> built.query]
  /\ UNCHANGED <<ids, cache, docs, nextHandle, pc, id_, outstanding, stale, read>>

(* The request that validated a header, built a query, searched, resolved  *)
(* a handle or read the errors of a bulk response is answered; the next    *)
(* one is served.                                                          *)
Respond ==
  /\ obs.op \in {"validate_search_size_header", "multisearch",
                 "build_query_from_request", "errors", "resolve"}
  /\ obs' = NoObs
  /\ UNCHANGED <<ids, cache, docs, nextHandle, pc, id_, outstanding, stale, read>>

(* GET /companies/<id>: SearchQuery(index, size).perform_search_by_id(i).  *)
SearchById(i, size) ==
  /\ \E response \in perform_search(docs, i, size) :
       LET found == perform_search_by_id(response)
       IN  obs' = [op |-> "perform_search_by_id", id |-> i, response |-> response,
                   raised |-> found.raised, result |-> found.result]
  /\ UNCHANGED <<ids, cache, docs, nextHandle, pc, id_, outstanding, stale, read>>

-----------------------------------------------------------------------------
(* Specifications.                                                         *)

(* The allocator's interface used by a single caller.                      *)
NextAlloc ==
  \/ GenDraw(1)
  \/ GenIf(1)
  \/ GenWhile(1)
  \/ GenAdd(1, "idle")
  \/ \E i \in IdRange : RemoveCall(1, i)

SpecAlloc == Init /\ [][NextAlloc]_vars

(* The allocator shared by all workers: records are added with allocated   *)
(* identifiers and deleted, the steps of the workers interleaved.          *)
NextWorkers ==
  \E w \in Workers :
    \/ GenDraw(w)
    \/ GenIf(w)
    \/ GenWhile(w)
    \/ GenAdd(w, "built")
    \/ AddCompany(w)
    \/ AddCompanyUnavailable(w)
    \/ \E i \in IdRange : DeleteCompany(w, i)

SpecWorkers == Init /\ [][NextWorkers]_vars

(* The operations of the API, requests being served one after the other.   *)
Next ==
  \/ GenDraw(1)
  \/ GenIf(1)
  \/ GenWhile(1)
  \/ GenAdd(1, "built")
  \/ AddCompany(1)
  \/ AddCompanyUnavailable(1)
  \/ \E i \in IdRange : AddSupplied(1, i)
  \/ \E i \in IdRange : Resolve(1, i)
  \/ \E i \in IdRange : DeleteCompany(1, i)
  \/ \E req \in Requests : BulkDelete(1, req)
  \/ \E req \in Requests : BulkUpdate(1, req)

Spec == Init /\ [][Next]_vars

(* Bulk responses built for the handles resolved so far, one request at a  *)
(* time.                                                                   *)
NextBulk ==
  \/ \E i \in IdRange : obs.op # "create_bulk_resp" /\ Resolve(1, i)
  \/ \E op_type \in {"index", "update", "delete"}, req \in Requests :
       CreateBulkResp(op_type, req)
  \/ ReturnBulkResp

SpecBulk == Init /\ [][NextBulk]_vars

(* Reads of elasticsearch_id while records are added with the identifiers  *)
(* clients supply (several records may carry the same identifier).         *)
NextCache ==
  \/ \E i \in IdRange : Resolve(1, i)
  \/ \E i \in IdRange : AddSupplied(1, i)
  \/ \E i \in IdRange, size \in MinSize..MaxSize : SearchById(i, size)

SpecCache == Init /\ [][NextCache]_vars

(* The single-record operations on the records and their handles: reads   *)
(* of elasticsearch_id, adds, updates and deletes.                         *)
NextRecords ==
  \/ \E i \in IdRange : Resolve(1, i)
  \/ \E i \in IdRange : AddSupplied(1, i)
  \/ \E i \in IdRange, new_id \in IdRange \cup {NoId} : UpdateCompany(1, i, new_id)
  \/ \E i \in IdRange : DeleteCompany(1, i)

SpecRecords == Init /\ [][NextRecords]_vars

(* Reads of elasticsearch_id by all workers, their steps interleaved, the  *)
(* index being left as it is.                                              *)
NextReads ==
  \E w \in Workers :
    \/ \E i \in IdRange : ReadStart(w, i)
    \/ ReadQuery(w)
    \/ PopulateKey(w)
    \/ PopulateValue(w)
    \/ ReadDone(w)

SpecReads == Init /\ [][NextReads]_vars

(* Searches: the queries built from requests, and multi-searches.          *)
NextSearch ==
  \/ \E header \in Headers : ValidateSearchSizeHeader(header)
  \/ obs.op = "validate_search_size_header"
       /\ \E payload \in Payloads : MultiSearch(payload)
  \/ obs = NoObs
       /\ \E items \in ItemSeqs(SearchFields) : BuildQueryFromParams(items)
  \/ obs = NoObs
       /\ \E first \in SearchObjects, items \in ItemSeqs(SearchFields) :
            BuildQueryFromPayload(first, items)
  \/ Respond

SpecSearch == Init /\ [][NextSearch]_vars

(* BulkResponse.errors read with the handles resolved so far in the cache. *)
NextErrors ==
  \/ \E i \in IdRange : obs = NoObs /\ Resolve(1, i)
  \/ obs = NoObs
       /\ \E failures \in FailureLists(cache), local \in SUBSET IdRange :
            Errors(failures, local)
  \/ Respond

SpecErrors == Init /\ [][NextErrors]_vars

-----------------------------------------------------------------------------
(* Properties.                                                             *)

BulkRespBuilt == obs.op = "create_bulk_resp" /\ ~obs.raised

(* C1: the outcome list create_bulk_resp builds has as many entries as the *)
(* request list, whatever the engine failures and the internal errors.     *)
C1_OutcomeLength ==
  BulkRespBuilt => Len(obs.data) = Len(obs.request_data)

C1_Witness ==
  /\ BulkRespBuilt
  /\ Len(obs.request_data) >= 2
  /\ obs.failures # <<>>
  /\ obs.internal_errors # {}

(* The identifier errors_loop files a failure descriptor under.            *)
FailureId(f, c) == IF f.es_id \in DOMAIN c THEN c[f.es_id] ELSE f.reason.id

Permuted(f, p) == [k \in 1..Len(f) |-> f[p[k]]]

RequestsInOrder ==
  /\ Len(obs.data) = Len(obs.request_data)
  /\ \A k \in 1..Len(obs.request_data) : obs.data[k].request = obs.request_data[k]

SameUnderPermutation ==
  \A p \in Permutations(1..Len(obs.failures)) :
    create_bulk_resp(obs.op_type, obs.request_data, Permuted(obs.failures, p),
                     obs.internal_errors, cache)
      = [raised |-> FALSE, data |-> obs.data]

(* C2 as claimed: the i-th outcome answers the i-th request item, and      *)
(* listing the engine's failure descriptors in another order leaves the    *)
(* outcome list as it is.                                                  *)
C2_PermutationInvariant ==
  BulkRespBuilt => RequestsInOrder /\ SameUnderPermutation

(* Failure descriptors filed under the same identifier say the same.       *)
OneMessagePerIdentifier ==
  \A j, k \in 1..Len(obs.failures) :
    FailureId(obs.failures[j], cache) = FailureId(obs.failures[k], cache)
      => obs.failures[j].reason = obs.failures[k].reason

(* C2, amended: the i-th outcome answers the i-th request item in every    *)
(* case; listing the failure descriptors in another order leaves the       *)
(* outcome list as it is when no two descriptors of the same identifier    *)
(* carry different messages (otherwise the one listed last is reported).   *)
C2_OrderPreserved ==
  BulkRespBuilt =>
    /\ RequestsInOrder
    /\ OneMessagePerIdentifier => SameUnderPermutation

C2_Witness ==
  /\ BulkRespBuilt
  /\ obs.op_type = "update"
  /\ Len(obs.failures) >= 2
  /\ FailureId(obs.failures[1], cache) # FailureId(obs.failures[2], cache)
  /\ obs.failures[1].reason # obs.failures[2].reason
  /\ obs.request_data[1].id > obs.request_data[2].id

ItemId(element) == IF obs.op_type = "delete" THEN element ELSE element.id
SuccessTag == IF obs.op_type = "delete" THEN Tag("deleted") ELSE Tag("updated")

(* C3: in an update or delete response an item is answered with the        *)
(* message the merged error map holds for its identifier exactly when the  *)
(* identifier is a key of that map, and with the operation's success tag   *)
(* otherwise.                                                              *)
C3_ErrorIffInMergedMap ==
  BulkRespBuilt /\ obs.op_type \in {"update", "delete"} =>
    LET merged == errors(obs.failures, obs.internal_errors, cache).error
    IN  /\ Len(obs.data) = Len(obs.request_data)
        /\ \A k \in 1..Len(obs.data) :
             LET id == ItemId(obs.request_data[k])
             IN  obs.data[k].response =
                   IF id \in DOMAIN merged THEN merged[id] ELSE SuccessTag

C3_Witness ==
  /\ BulkRespBuilt
  /\ obs.op_type = "update"
  /\ \E j, k \in 1..Len(obs.data) :
       /\ obs.data[j].response = Tag("updated")
       /\ obs.data[k].response \in {f.reason : f \in Range(obs.failures)}

(* C4: for a single caller, generate returns an identifier of the range    *)
(* that was not live when called (the live set does not change during the  *)
(* call), the identifier is live when generate returns, and no earlier     *)
(* return of the same identifier is still outstanding (not yet removed).   *)
C4_GenerateReturnsFresh ==
  obs.op = "generate" =>
    /\ obs.ret \in IdRange
    /\ ~obs.wasLive
    /\ obs.ret \in ids
    /\ obs.others = 0

C4_Witness ==
  /\ obs.op = "generate"
  /\ \E i \in IdRange \ {obs.ret} : outstanding[i] = 1

(* C5: with workers calling generate concurrently, no identifier is        *)
(* returned to two calls unless it was removed in between.                 *)
C5_NoDuplicateAllocation ==
  \A i \in IdRange : outstanding[i] <= 1

(* C6: no two live records share an identifier: a record added with an     *)
(* identifier the allocator has just returned is the only live record      *)
(* with that identifier, also when a client supplied it for an earlier     *)
(* record.                                                                 *)
C6_AllocatedIdentifierUnique ==
  obs.op = "add_company" /\ ~obs.supplied => Hits(docs, obs.id) = {obs.handle}

(* C7: generate does not go on retrying when every identifier of the range *)
(* is live (it ends with a capacity error).                                *)
C7_ExhaustedRangeRaises ==
  ~(pc[1] = "gen_while" /\ IdRange \subseteq ids)

(* C8: when bulk_delete has returned, every identifier whose document the  *)
(* engine deleted is gone from the live set and from the cache, with its   *)
(* handle; every identifier whose delete failed keeps its live-set         *)
(* membership and its cache entry.                                         *)
C8_BulkDeleteReleases ==
  obs.op = "bulk_delete" =>
    /\ \A x \in obs.deleted :
         /\ x.id \notin DOMAIN cache
         /\ x.handle \notin DOMAIN cache
         /\ x.id \notin ids
    /\ \A e \in obs.failed : Entry(cache, ids, e.id) = e

(* C9: when the engine delete succeeds, delete_company returns normally    *)
(* and leaves the identifier out of the live set and both directions of    *)
(* its cache entry out of the cache.                                       *)
C9_DeleteCompanyEvicts ==
  obs.op = "delete_company" /\ obs.engine = "deleted" =>
    /\ obs.raised = "none"
    /\ obs.id \notin ids
    /\ obs.id \notin DOMAIN cache
    /\ obs.handle \notin DOMAIN cache

(* C10: a read of elasticsearch_id that follows the deletion, through the  *)
(* API, of the record whose handle was cached queries the engine again.    *)
C10_ResolveAfterDeleteQueries ==
  obs.op = "resolve" /\ obs.afterDelete => obs.queried

(* C11: a read of elasticsearch_id that misses the cache and finds the     *)
(* record has queried the engine once and leaves both directions           *)
(* (identifier -> handle, handle -> identifier) in the cache; the read of  *)
(* the same identifier that follows it returns the same handle without a   *)
(* query.                                                                  *)
C11_SecondReadCached ==
  obs.op = "resolve" =>
    /\ obs.queried /\ ~obs.raised =>
         /\ obs.id \in DOMAIN cache /\ cache[obs.id] = obs.handle
         /\ obs.handle \in DOMAIN cache /\ cache[obs.handle] = obs.id
         /\ obs.handle \in Hits(docs, obs.id)
    /\ obs.prev = "returned" =>
         /\ ~obs.raised
         /\ obs.handle = obs.first
         /\ ~obs.queried

C11_Witness ==
  /\ obs.op = "resolve"
  /\ obs.prev = "returned"
  /\ ~obs.queried
  /\ obs.handle = obs.first
  /\ Cardinality(Hits(docs, obs.id)) = 2

ReadRaised == obs'.op = "resolve" /\ obs'.raised

C13_BulkUpdatePartial ==
  obs.op = "bulk_update" /\ obs.unresolved # {} =>
    /\ obs.raised = "none"
    /\ Len(obs.data) = Len(obs.req)
    /\ \A k \in 1..Len(obs.req) :
         /\ obs.data[k].request.id = obs.req[k]
         /\ obs.data[k].response =
              IF obs.req[k] \in obs.unresolved
              THEN NotFoundMessage(obs.req[k]) ELSE Tag("updated")

(* C14: in a bulk add response an item whose index action the engine      *)
(* reported as failed is answered with its error message, and every item   *)
(* absent from the error report with 'created'.                            *)
C14_BulkAddSurfacesFailures ==
  BulkRespBuilt /\ obs.op_type = "index" =>
    LET merged == errors(obs.failures, obs.internal_errors, cache).error
    IN  /\ Len(obs.data) = Len(obs.request_data)
        /\ \A k \in 1..Len(obs.data) :
             LET id == obs.request_data[k].id
             IN  obs.data[k].response =
                   IF id \in DOMAIN merged THEN merged[id] ELSE Tag("created")

(* C15: for K queries build_multisearch_body gives 2K entries, the k-th    *)
(* pair being the request_cache header and the body with the k-th query    *)
(* and size = max_num_results; perform_multisearch gives K hit lists, the  *)
(* k-th being the first min(max_num_results, number of hits) hits of the   *)
(* engine's k-th response, in the engine's order.                          *)
C15_MultisearchRoundTrip ==
  obs.op = "multisearch" =>
    LET K == Len(obs.queries)
    IN  /\ Len(obs.body) = 2 * K
        /\ \A k \in 1..K :
             /\ obs.body[2 * k - 1] = [request_cache |-> TRUE]
             /\ obs.body[2 * k] = [query |-> obs.queries[k],
                                   size |-> obs.max_num_results]
        /\ Len(obs.responses) = K
        /\ Len(obs.results) = K
        /\ \A k \in 1..K :
             obs.results[k] =
               SubSeq(obs.responses[k], 1,
                      Min(obs.max_num_results, Len(obs.responses[k])))

C15_Witness ==
  /\ obs.op = "multisearch"
  /\ Len(obs.queries) = 2
  /\ obs.queries[1] # obs.queries[2]
  /\ Len(obs.responses[1]) > obs.max_num_results
  /\ Len(obs.responses[2]) <= obs.max_num_results
  /\ obs.responses[2] # <<>>

(* C16: validate_search_size_header raises BadRequest for every header     *)
(* value below 1 or above 5, returns a SearchQuery with the value for a    *)
(* value in 1..5 and one with max_num_results = 1 for a missing header; no *)
(* search is sent to the engine after a header was refused.                *)
C16_SizeHeaderValidated ==
  /\ [](obs.op = "validate_search_size_header" =>
          IF obs.header.present
          THEN IF obs.header.value < 1 \/ obs.header.value > 5
               THEN obs.search.raised = "BadRequest"
               ELSE /\ obs.search.raised = "none"
                    /\ obs.search.max_num_results = obs.header.value
          ELSE /\ obs.search.raised = "none"
               /\ obs.search.max_num_results = 1)
  /\ [][obs'.op = "multisearch" =>
          /\ obs.op = "validate_search_size_header"
          /\ obs.search.raised = "none"
          /\ obs'.max_num_results \in 1..5]_vars

C16_Witness ==
  /\ obs.op = "validate_search_size_header"
  /\ obs.header.present
  /\ obs.header.value = 6
  /\ obs.search.raised = "BadRequest"

(* C17: perform_search_by_id raises NotFoundError exactly when no document *)
(* has the identifier in its 'id' field, and otherwise returns the first   *)
(* hit of the response, a document with that identifier.                   *)
C17_SearchByIdNotFound ==
  obs.op = "perform_search_by_id" =>
    IF Hits(docs, obs.id) = {}
    THEN obs.raised = "NotFoundError"
    ELSE /\ obs.raised = "none"
         /\ obs.result = obs.response[1]
         /\ obs.result \in Hits(docs, obs.id)

C17_Witness ==
  /\ obs.op = "perform_search_by_id"
  /\ obs.raised = "NotFoundError"
  /\ docs # EmptyMap

(* The fields of the request items whose value is neither absent nor       *)
(* empty.                                                                  *)
Present(items) == {k \in 1..Len(items) : items[k][2].kind = "str" /\ items[k][2].text # ""}

(* C18: build_query_from_request returns a query with exactly one clause   *)
(* for every request field that has a non-empty value (a fuzzy match in    *)
(* 'must' for name and locality, a lower-cased term filter on              *)
(* '<field>.keyword' in 'filter' for every other field) and no clause for  *)
(* a field whose value is absent or empty.                                 *)
C18_FieldRouting ==
  obs.op = "build_query_from_request" =>
    /\ obs.raised = "none"
    /\ Len(obs.query.must) + Len(obs.query.filter) = Cardinality(Present(obs.request))
    /\ \A k \in Present(obs.request) :
         LET field == obs.request[k][1]
             text == obs.request[k][2].text
         IN  IF field \in FuzzyFields
             THEN \E j \in 1..Len(obs.query.must) :
                    /\ obs.query.must[j].clause = "match"
                    /\ obs.query.must[j].field = field
                    /\ obs.query.must[j].fuzziness = "auto"
             ELSE \E j \in 1..Len(obs.query.filter) :
                    obs.query.filter[j] =
                      [clause |-> "term", field |-> field \o ".keyword",
                       query |-> Lower(text)]

(* C19: bulk_update and bulk_delete record every item whose handle cannot  *)
(* be resolved as a local error under its own identifier, submit no action *)
(* for it, and submit an action for every other item of the request, in    *)
(* request order: the batch is not aborted.                                *)
C19_UnresolvedItemsSkipped ==
  obs.op \in {"bulk_update", "bulk_delete"} /\ obs.unresolved # {} =>
    LET Resolvable(i) == i \notin obs.unresolved
    IN  /\ obs.raised = "none"
        /\ obs.internal = obs.unresolved
        /\ obs.yielded = SelectSeq(obs.req, Resolvable)

EngineMessages(i) ==
  {obs.failures[k].reason :
     k \in {j \in 1..Len(obs.failures) : FailureId(obs.failures[j], cache) = i}}
LocalMessages(i) == {x[2] : x \in {y \in obs.internal_errors : y[1] = i}}

(* C20: in the map BulkResponse.errors returns, an identifier that has     *)
(* both an engine-reported failure and a local error holds the local       *)
(* error's message; an identifier with one kind of error holds a message   *)
(* of that kind; an identifier with neither is not a key.                  *)
C20_LocalErrorWins ==
  obs.op = "errors" /\ ~obs.raised =>
    \A i \in IdRange :
      IF LocalMessages(i) # {}
      THEN i \in DOMAIN obs.error /\ obs.error[i] \in LocalMessages(i)
      ELSE IF EngineMessages(i) # {}
           THEN i \in DOMAIN obs.error /\ obs.error[i] \in EngineMessages(i)
           ELSE i \notin DOMAIN obs.error

C20_Witness ==
  /\ obs.op = "errors"
  /\ ~obs.raised
  /\ \E i, j \in IdRange :
       /\ LocalMessages(i) # {} /\ EngineMessages(i) # {}
       /\ obs.error[i] \in LocalMessages(i)
       /\ LocalMessages(j) = {} /\ EngineMessages(j) # {}
       /\ obs.failures[1].es_id \in DOMAIN cache

(* C21: BulkResponse.errors never raises and files every engine failure    *)
(* descriptor under a domain identifier: the cached reverse mapping of its *)
(* handle when the handle is a key of the cache, and otherwise the         *)
(* identifier embedded in the text of its message.                         *)
C21_ErrorsNeverRaises ==
  obs.op = "errors" =>
    /\ ~obs.raised
    /\ \A k \in 1..Len(obs.failures) :
         LET f == obs.failures[k]
             id == IF f.es_id \in DOMAIN cache THEN cache[f.es_id] ELSE f.reason.id
         IN  id \in IdRange /\ id \in DOMAIN obs.error

(* C22: in every state reached by reads of elasticsearch_id, adds, updates *)
(* (an update may change a record's 'id' field) and deletes, the cache is  *)
(* a bijection between identifiers and handles: every key's value is a key *)
(* that maps back to it.                                                   *)
C22_CacheBijection ==
  \A k \in DOMAIN cache :
    /\ cache[k] \in DOMAIN cache
    /\ cache[cache[k]] = k

Returned(w) == pc[w] = "returned"
AllFinished == \A w \in Workers : pc[w] \in {"idle", "returned", "raised"}

(* C23: when workers read elasticsearch_id concurrently while the index is *)
(* unchanged, the reads of the same identifier return the same handle, the *)
(* handle of the identifier's record, and once every read has finished the *)
(* cache holds the identifier -> handle and handle -> identifier entries   *)
(* of every record read, and no other entry with that identifier or that   *)
(* handle, however the cache writes of the workers interleave.             *)
C23_ConcurrentReadsAgree ==
  /\ \A w \in Workers :
       Returned(w) => read[w].handle \in Hits(docs, id_[w])
  /\ \A v, w \in Workers :
       Returned(v) /\ Returned(w) /\ id_[v] = id_[w]
         => read[v].handle = read[w].handle
  /\ AllFinished =>
       \A w \in Workers :
         Returned(w) =>
           /\ id_[w] \in DOMAIN cache /\ cache[id_[w]] = read[w].handle
           /\ read[w].handle \in DOMAIN cache /\ cache[read[w].handle] = id_[w]
           /\ \A k \in DOMAIN cache :
                /\ cache[k] = read[w].handle => k = id_[w]
                /\ cache[k] = id_[w] => k = read[w].handle

C23_Witness ==
  /\ AllFinished
  /\ \E v, w \in Workers :
       /\ v # w
       /\ Returned(v) /\ Returned(w)
       /\ id_[v] = id_[w]
       /\ read[v].queried /\ read[w].queried
       /\ read[v].handle = read[w].handle

=============================================================================
